---------------------------- MODULE Spec2Model ----------------------------
(***************************************************************************)
(* Model of src/src/postgres/index.ts: an MCP server that exposes a        *)
(* PostgreSQL database.  Four request handlers (list-resources,            *)
(* read-resource, list-tools, call-tool) share one pg.Pool.  Each handler  *)
(* is an async function; the code between two awaits runs atomically on    *)
(* the event loop, so every action below is one such run.                  *)
(*                                                                         *)
(* Strings are TLA+ strings, built with \o exactly as the template         *)
(* literals of the source build them.  A JavaScript value that may be      *)
(* undefined is a record [def |-> BOOLEAN, v |-> value].  An object used   *)
(* as a map (data, where) is the sequence of its [k, v] entries in         *)
(* Object.keys order, with pairwise distinct keys.                         *)
(***************************************************************************)
EXTENDS Integers, Sequences, FiniteSets, TLC

(***************************************************************************)
(* Bounds of the model.                                                    *)
(***************************************************************************)
\* number of requests the transport delivers in one behaviour
MaxReq == 2
\* number of clients the pool can hand out at the same time
PoolSize == 1
\* largest number of entries of a data / where object
MaxKeys == 2

Reqs == 1..MaxReq
Handles == 1..PoolSize

(***************************************************************************)
(* JavaScript values.                                                      *)
(***************************************************************************)
Some(x) == [def |-> TRUE, v |-> x]
\* the value undefined, for a string-typed and for an object-typed slot
UndefStr == [def |-> FALSE, v |-> ""]
UndefObj == [def |-> FALSE, v |-> <<>>]

\* `${x}` of a template literal: String(x); undefined renders as "undefined"
TemplateStr(x) == IF x.def THEN x.v ELSE "undefined"

\* Array.prototype.join(sep)
RECURSIVE Join(_, _)
Join(arr, sep) ==
    IF Len(arr) = 0 THEN ""
    ELSE IF Len(arr) = 1 THEN arr[1]
    ELSE arr[1] \o sep \o Join(Tail(arr), sep)

\* Object.keys(obj) and Object.values(obj) of an object given by its entries
ObjectKeys(obj) == [i \in 1..Len(obj) |-> obj[i].k]
ObjectValues(obj) == [i \in 1..Len(obj) |-> obj[i].v]


(***************************************************************************)
(* The statement builders of the call-tool handler.  A JavaScript map      *)
(* callback receives the 0-based index i; the element at TLA+ position j   *)
(* has i = j - 1.                                                          *)
(***************************************************************************)
\* what client.query(text, values) is called with
Statement(text, values) == [text |-> text, values |-> values]

\* a slip: the placeholders numbered from the 0-based index, `$${i}`
insertPlaceholdersZeroBased(values) ==
    Join([j \in 1..Len(values) |-> LET i == j - 1 IN "$" \o ToString(i)], ", ")

\* case "insert": values.map((_, i) => `$${i + 1}`).join(", ")
insertPlaceholders(values) ==
    Join([j \in 1..Len(values) |-> LET i == j - 1 IN "$" \o ToString(i + 1)], ", ")

\* case "insert": columns.map(c => `"${c}"`).join(", ")
insertColumnList(columns) ==
    Join([j \in 1..Len(columns) |-> "\"" \o columns[j] \o "\""], ", ")

\* a slip: the values written into the text, VALUES ('${v}', ...)
insertStatementInlined(table, data) ==
    LET columns == ObjectKeys(data)
        values == ObjectValues(data)
        literals == Join([j \in 1..Len(values) |-> "'" \o values[j] \o "'"], ", ")
        sql == "INSERT INTO \"" \o TemplateStr(table) \o "\" ("
                 \o insertColumnList(columns)
                 \o ") VALUES (" \o literals \o ") RETURNING *"
    IN Statement(Some(sql), values)

\* case "insert": the sql text and the values handed to client.query
insertStatement(table, data) ==
    LET columns == ObjectKeys(data)
        values == ObjectValues(data)
        placeholders == insertPlaceholders(values)
        sql == "INSERT INTO \"" \o TemplateStr(table) \o "\" ("
                 \o insertColumnList(columns)
                 \o ") VALUES (" \o placeholders \o ") RETURNING *"
    IN Statement(Some(sql), values)

\* case "update": setColumns.map((col, i) => `"${col}" = $${i + 1}`).join(", ")
updateSetClause(setColumns) ==
    Join([j \in 1..Len(setColumns) |->
            LET i == j - 1 IN "\"" \o setColumns[j] \o "\" = $" \o ToString(i + 1)],
         ", ")

\* a slip: the where placeholders numbered from $1 again, `$${i + 1}`
updateWhereClauseFromOne(whereColumns, setValues) ==
    Join([j \in 1..Len(whereColumns) |->
            LET i == j - 1
            IN "\"" \o whereColumns[j] \o "\" = $" \o ToString(i + 1)],
         " AND ")

\* case "update": whereColumns.map((col, i) =>
\*                  `"${col}" = $${i + 1 + setValues.length}`).join(" AND ")
updateWhereClause(whereColumns, setValues) ==
    Join([j \in 1..Len(whereColumns) |->
            LET i == j - 1
            IN "\"" \o whereColumns[j] \o "\" = $" \o ToString(i + 1 + Len(setValues))],
         " AND ")

\* case "update": [...setValues, ...whereValues]
updateValues(setValues, whereValues) == setValues \o whereValues

\* case "update": the sql text and the values handed to client.query
updateStatement(table, data, where) ==
    LET setColumns == ObjectKeys(data)
        setValues == ObjectValues(data)
        whereColumns == ObjectKeys(where)
        whereValues == ObjectValues(where)
        setClause == updateSetClause(setColumns)
        whereClause == updateWhereClause(whereColumns, setValues)
        sql == "UPDATE \"" \o TemplateStr(table) \o "\" SET " \o setClause
                 \o " WHERE " \o whereClause \o " RETURNING *"
    IN Statement(Some(sql), updateValues(setValues, whereValues))

\* a slip: the conditions joined like a SET clause, with ", "
deleteWhereClauseCommas(whereColumns) ==
    Join([j \in 1..Len(whereColumns) |->
            LET i == j - 1 IN "\"" \o whereColumns[j] \o "\" = $" \o ToString(i + 1)],
         ", ")

\* case "delete": whereColumns.map((col, i) => `"${col}" = $${i + 1}`).join(" AND ")
deleteWhereClause(whereColumns) ==
    Join([j \in 1..Len(whereColumns) |->
            LET i == j - 1 IN "\"" \o whereColumns[j] \o "\" = $" \o ToString(i + 1)],
         " AND ")

\* case "delete": the sql text and the values handed to client.query
deleteStatement(table, where) ==
    LET whereColumns == ObjectKeys(where)
        whereValues == ObjectValues(where)
        whereClause == deleteWhereClause(whereColumns)
        sql == "DELETE FROM \"" \o TemplateStr(table) \o "\" WHERE "
                 \o whereClause \o " RETURNING *"
    IN Statement(Some(sql), whereValues)

\* case "query": client.query(sql) with sql = request.params.arguments?.sql
queryStatement(sql) == Statement(sql, <<>>)

(***************************************************************************)
(* Strings: searching and splitting (String.prototype.split).              *)
(***************************************************************************)
\* s starts with prefix p
StartsWith(s, p) == Len(s) >= Len(p) /\ SubSeq(s, 1, Len(p)) = p

\* the positions at which sub occurs in s
Occurrences(s, sub) ==
    {i \in 1..(Len(s) - Len(sub) + 1) : SubSeq(s, i, i + Len(sub) - 1) = sub}

\* the smallest element of a non-empty set of numbers
Min(S) == CHOOSE x \in S : \A y \in S : x <= y

\* str.split(sep) for a non-empty separator
RECURSIVE Split(_, _)
Split(str, sep) ==
    LET at == Occurrences(str, sep)
    IN IF at = {} THEN <<str>>
       ELSE LET i == Min(at)
            IN <<SubSeq(str, 1, i - 1)>>
                 \o Split(SubSeq(str, i + Len(sep), Len(str)), sep)

(***************************************************************************)
(* Resource uris.  resourceBaseUrl is the database url with the protocol   *)
(* set to postgres: and the password removed.                              *)
(***************************************************************************)
SCHEMA_PATH == "schema"

\* scheme and authority of resourceBaseUrl; its path is "/mydb"
resourceBaseOrigin == "postgres://localhost"

\* the percent-encoding the URL parser applies to one character of a path
PathEncodeChar(c) == IF c = " " THEN "%20" ELSE c

\* the percent-encoding of a relative path
RECURSIVE PathEncode(_)
PathEncode(s) ==
    IF Len(s) = 0 THEN ""
    ELSE PathEncodeChar(SubSeq(s, 1, 1)) \o PathEncode(SubSeq(s, 2, Len(s)))

\* new URL(`${row.table_name}/${SCHEMA_PATH}`, resourceBaseUrl).href: the
\* relative reference replaces the last segment ("mydb") of the base path
resourceUri(table_name) ==
    resourceBaseOrigin \o "/" \o PathEncode(table_name \o "/" \o SCHEMA_PATH)

\* new URL(uri): throws unless uri is absolute; .pathname is what follows the
\* authority (the uris of the model carry no query and no fragment)
parseUrl(uri) ==
    IF StartsWith(uri, "postgres://")
    THEN LET rest == SubSeq(uri, Len("postgres://") + 1, Len(uri))
             slash == Occurrences(rest, "/")
         IN [ok |-> TRUE,
             pathname |-> IF slash = {} THEN ""
                          ELSE SubSeq(rest, Min(slash), Len(rest))]
    ELSE [ok |-> FALSE, pathname |-> ""]

\* arr.pop(): the last element (undefined when arr is empty) and the rest
Pop(arr) ==
    IF Len(arr) = 0 THEN [value |-> UndefStr, rest |-> arr]
    ELSE [value |-> Some(arr[Len(arr)]), rest |-> SubSeq(arr, 1, Len(arr) - 1)]

\* a slip: the trailing segment is popped but never compared with SCHEMA_PATH
readResourceParseUnchecked(uri) ==
    LET resourceUrl == parseUrl(uri)
        pathComponents == Split(resourceUrl.pathname, "/")
        first == Pop(pathComponents)
        second == Pop(first.rest)
        tableName == second.value
    IN IF ~resourceUrl.ok
       THEN [threw |-> TRUE, message |-> "Invalid URL", tableName |-> UndefStr]
       ELSE [threw |-> FALSE, message |-> "", tableName |-> tableName]

\* read-resource, up to the check of the trailing segment
readResourceParse(uri) ==
    LET resourceUrl == parseUrl(uri)
        pathComponents == Split(resourceUrl.pathname, "/")
        first == Pop(pathComponents)
        second == Pop(first.rest)
        schema == first.value
        tableName == second.value
    IN IF ~resourceUrl.ok
       THEN [threw |-> TRUE, message |-> "Invalid URL", tableName |-> UndefStr]
       ELSE IF schema # Some(SCHEMA_PATH)
       THEN [threw |-> TRUE, message |-> "Invalid resource URI", tableName |-> UndefStr]
       ELSE [threw |-> FALSE, message |-> "", tableName |-> tableName]

(***************************************************************************)
(* Requests.  request.params of a call-tool request is (name, arguments);  *)
(* arguments is optional, and so is each of its properties.                *)
(***************************************************************************)
Columns == {"id", "name", "email"}
\* bound values are marker strings that occur in no keyword and no identifier
BoundValues == {"Ann", "Bea"}

Entries == [k : Columns, v : BoundValues]

\* the objects with at most n entries: the keys of an object are distinct
Objects(n) ==
    UNION {{o \in [1..m -> Entries] : \A i, j \in 1..m : o[i].k = o[j].k => i = j}
             : m \in 0..n}

Arguments(table, data, where, sql) ==
    [def |-> TRUE, table |-> table, data |-> data, where |-> where, sql |-> sql]
\* request.params.arguments is undefined
NoArguments ==
    [def |-> FALSE, table |-> UndefStr, data |-> UndefObj, where |-> UndefObj,
     sql |-> UndefStr]

Request(kind, name, arguments, uri) ==
    [kind |-> kind, name |-> name, arguments |-> arguments, uri |-> uri]
NoRequest == Request("none", "", NoArguments, "")

TableArgs == {UndefStr, Some("users")}
ObjectArgs(n) == {UndefObj} \cup {Some(o) : o \in Objects(n)}
SqlArgs == {UndefStr, Some("SELECT 1")}

\* the call-tool requests over objects of at most n entries
CallToolRequests(n) ==
    {Request("callTool", "query", a, "") :
        a \in {NoArguments} \cup
              {Arguments(UndefStr, UndefObj, UndefObj, q) : q \in SqlArgs}}
    \cup {Request("callTool", "insert", a, "") :
        a \in {NoArguments} \cup
              {Arguments(t, d, UndefObj, UndefStr) :
                  t \in TableArgs, d \in ObjectArgs(n)}}
    \cup {Request("callTool", "update", a, "") :
        a \in {NoArguments} \cup
              {Arguments(t, d, w, UndefStr) :
                  t \in TableArgs, d \in ObjectArgs(n), w \in ObjectArgs(n)}}
    \cup {Request("callTool", "delete", a, "") :
        a \in {NoArguments} \cup
              {Arguments(t, UndefObj, w, UndefStr) :
                  t \in TableArgs, w \in ObjectArgs(n)}}
    \cup {Request("callTool", "truncate", NoArguments, "")}

\* a few call-tool requests, one for each path through the handler
FewCallToolRequests ==
    LET one == Some(<<[k |-> "id", v |-> "Ann"]>>)
        none == Some(<<>>)
        users == Some("users")
    IN {Request("callTool", "query", Arguments(UndefStr, UndefObj, UndefObj, Some("SELECT 1")), ""),
        Request("callTool", "insert", Arguments(users, one, UndefObj, UndefStr), ""),
        Request("callTool", "insert", Arguments(users, UndefObj, UndefObj, UndefStr), ""),
        Request("callTool", "update", Arguments(users, one, one, UndefStr), ""),
        Request("callTool", "delete", Arguments(users, UndefObj, none, UndefStr), ""),
        Request("callTool", "delete", NoArguments, ""),
        Request("callTool", "truncate", NoArguments, "")}

ResourceUris ==
    {"postgres://localhost/users/schema", "postgres://localhost/users/rows",
     "postgres://localhost/users/schema/", "postgres://localhost/schema",
     "postgres://localhost", "users/schema"}

(***************************************************************************)
(* What the connection provider may answer.  A row is the text             *)
(* JSON.stringify gives it, except for the catalog's table rows, which are *)
(* given by their table_name.                                              *)
(***************************************************************************)
TableRows == {<<>>, <<"users">>, <<"users", "order items">>}
ColumnRows == {<<>>, <<"{id,integer}">>}
ToolRows == {<<>>, <<"{row1}">>, <<"{row1}", "{row2}">>}
ProviderErrors == {"connection terminated"}

RowsFor(kind) ==
    CASE kind = "listResources" -> TableRows
      [] kind = "readResource" -> ColumnRows
      [] OTHER -> ToolRows

\* JSON.stringify(rows, null, 2) of an array of rows
StringifyRows(rows) ==
    IF Len(rows) = 0 THEN "[]"
    ELSE "[\n  " \o Join(rows, ",\n  ") \o "\n]"

\* a slip: the last row instead of the first, rows[rows.length - 1]
StringifyLastRow(rows) ==
    IF Len(rows) = 0 THEN UndefStr ELSE Some(rows[Len(rows)])

\* JSON.stringify(rows[0], null, 2): undefined when there is no row
StringifyFirstRow(rows) ==
    IF Len(rows) = 0 THEN UndefStr ELSE Some(rows[1])

(***************************************************************************)
(* The state.                                                              *)
(***************************************************************************)
VARIABLES
    pc,         \* where each request's handler stands
    req,        \* the request each handler was invoked with
    client,     \* the pool client each handler holds (0: none)
    acquired,   \* per request, how many times pool.connect() resolved
    released,   \* per request, how many times client.release() was called
    submitted,  \* per request, the statements passed to client.query
    resp,       \* per request, how the handler's promise settled
    result,     \* per request, how its client.query settled
    trace,      \* per request, the phases its handler went through
    tableName   \* per read-resource request, the const tableName it parsed

vars == <<pc, req, client, acquired, released, submitted, resp, result, trace,
          tableName>>

\* await client.query(...): pending, resolved with rows, or rejected
NoResult == [status |-> "none", rows |-> <<>>, error |-> ""]
RowsResult(rows) == [status |-> "rows", rows |-> rows, error |-> ""]
ErrorResult(error) == [status |-> "error", rows |-> <<>>, error |-> error]

\* the phases of a handler; "ResponseBuilt" is the point at which what the
\* handler will settle with (a return value or an error) is determined
PhasesInOrder ==
    <<"Received", "ConnectionAcquired", "Routed", "ResponseBuilt",
      "ConnectionReleased">>

\* the handler's promise: pending, fulfilled with a response, or rejected
NoResponse == [status |-> "none", isError |-> FALSE, text |-> UndefStr, list |-> <<>>]
\* rejected: the failure propagates to the protocol layer
Failure(message) ==
    [status |-> "failed", isError |-> FALSE, text |-> Some(message), list |-> <<>>]
\* a slip: the caught error returned without the flag
ErrorResponseUnflagged(message) ==
    [status |-> "returned", isError |-> FALSE, text |-> Some("Error: " \o message),
     list |-> <<>>]

\* catch (error): { content: [{ type: "text", text: `Error: ${error.message}` }], isError: true }
ErrorResponse(message) ==
    [status |-> "returned", isError |-> TRUE, text |-> Some("Error: " \o message),
     list |-> <<>>]
\* { content: [{ type: "text", text }], isError: false }
ToolResponse(text) ==
    [status |-> "returned", isError |-> FALSE, text |-> text, list |-> <<>>]
\* { contents: [{ uri, mimeType, text }] }
ContentsResponse(text) ==
    [status |-> "returned", isError |-> FALSE, text |-> Some(text), list |-> <<>>]
\* { resources: [...] } and { tools: [...] }, by the uris and the names
ListResponse(list) ==
    [status |-> "returned", isError |-> FALSE, text |-> UndefStr, list |-> list]

\* a slip: the descriptor of the delete tool left out of the list
toolNamesWithoutDelete == <<"query", "insert", "update">>

\* the names of the descriptors the list-tools handler returns
toolNames == <<"query", "insert", "update", "delete">>

Init ==
    /\ pc = [r \in Reqs |-> "idle"]
    /\ req = [r \in Reqs |-> NoRequest]
    /\ client = [r \in Reqs |-> 0]
    /\ acquired = [r \in Reqs |-> 0]
    /\ released = [r \in Reqs |-> 0]
    /\ submitted = [r \in Reqs |-> <<>>]
    /\ resp = [r \in Reqs |-> NoResponse]
    /\ result = [r \in Reqs |-> NoResult]
    /\ tableName = [r \in Reqs |-> UndefStr]
    /\ trace = [r \in Reqs |-> <<>>]

\* requests are numbered in the order the transport delivers them
NextToArrive(r) == pc[r] = "idle" /\ \A p \in 1..(r - 1) : pc[p] # "idle"

\* the clients the pool has not handed out
idleClients == Handles \ {client[r] : r \in Reqs}

\* client.release(): the client goes back to the pool
clientRelease(r) ==
    [client |-> [client EXCEPT ![r] = 0],
     released |-> [released EXCEPT ![r] = @ + 1]]

\* a slip: client.release() as the last statement of the try block, so that
\* a throw skips it
FinallyOnlyOnReturn(r, threw) ==
    IF threw THEN [client |-> client, released |-> released] ELSE clientRelease(r)

\* finally { client.release(); }: runs whether or not the try block threw
Finally(r, threw) == clientRelease(r)

\* the phases a handler adds when it leaves through its finally block f
LeavePhases(r, f) ==
    <<"ResponseBuilt">>
      \o (IF f.released[r] > released[r] THEN <<"ConnectionReleased">> ELSE <<>>)

(***************************************************************************)
(* The switch of the call-tool handler, up to the call of client.query:    *)
(* either it throws, or it has a statement to submit.                      *)
(***************************************************************************)
Throws(message) ==
    [threw |-> TRUE, message |-> message, statement |-> Statement(UndefStr, <<>>)]
Submits(statement) == [threw |-> FALSE, message |-> "", statement |-> statement]

DestructureError == "Cannot destructure property 'table' of 'request.params.arguments' as it is undefined."
ObjectKeysError == "Cannot convert undefined or null to object"

callToolSwitch(params) ==
    LET arguments == params.arguments
    IN CASE params.name = "query" ->
              \* arguments?.sql
              Submits(queryStatement(IF arguments.def THEN arguments.sql ELSE UndefStr))
         [] params.name = "insert" ->
              IF ~arguments.def THEN Throws(DestructureError)
              ELSE IF ~arguments.data.def THEN Throws(ObjectKeysError)
              ELSE Submits(insertStatement(arguments.table, arguments.data.v))
         [] params.name = "update" ->
              IF ~arguments.def THEN Throws(DestructureError)
              ELSE IF ~arguments.data.def THEN Throws(ObjectKeysError)
              ELSE IF ~arguments.where.def THEN Throws(ObjectKeysError)
              ELSE Submits(updateStatement(arguments.table, arguments.data.v,
                                           arguments.where.v))
         [] params.name = "delete" ->
              IF ~arguments.def THEN Throws(DestructureError)
              ELSE IF ~arguments.where.def THEN Throws(ObjectKeysError)
              ELSE Submits(deleteStatement(arguments.table, arguments.where.v))
         [] OTHER -> Throws("Unknown tool: " \o params.name)

(***************************************************************************)
(* The handlers.  A handler runs from one await to the next in one step.   *)
(***************************************************************************)
\* list-tools: returns the four descriptors; no await
ListTools(r) ==
    /\ NextToArrive(r)
    /\ req' = [req EXCEPT ![r] = Request("listTools", "", NoArguments, "")]
    /\ resp' = [resp EXCEPT ![r] = ListResponse(toolNames)]
    /\ pc' = [pc EXCEPT ![r] = "done"]
    /\ trace' = [trace EXCEPT ![r] = <<"Received", "ResponseBuilt">>]
    /\ UNCHANGED <<tableName, client, acquired, released, submitted, result>>

\* list-resources, up to await pool.connect()
ListResourcesStart(r) ==
    /\ NextToArrive(r)
    /\ req' = [req EXCEPT ![r] = Request("listResources", "", NoArguments, "")]
    /\ pc' = [pc EXCEPT ![r] = "connecting"]
    /\ trace' = [trace EXCEPT ![r] = <<"Received">>]
    /\ UNCHANGED <<tableName, client, acquired, released, submitted, resp, result>>

\* the uris the list-resources responses so far have given the client
ListedUris ==
    UNION {{resp[l].list[i] : i \in 1..Len(resp[l].list)} :
             l \in {x \in Reqs : req[x].kind = "listResources"}}

\* read-resource, up to await pool.connect(): the uri is parsed and checked
\* before any connection is asked for
ReadResourceStart(r) ==
    /\ NextToArrive(r)
    /\ \E uri \in ResourceUris \cup ListedUris :
         LET parsed == readResourceParse(uri)
         IN /\ req' = [req EXCEPT ![r] = Request("readResource", "", NoArguments, uri)]
            /\ IF parsed.threw
               THEN /\ resp' = [resp EXCEPT ![r] = Failure(parsed.message)]
                    /\ pc' = [pc EXCEPT ![r] = "done"]
                    /\ trace' = [trace EXCEPT ![r] = <<"Received", "ResponseBuilt">>]
               ELSE /\ resp' = resp
                    /\ pc' = [pc EXCEPT ![r] = "connecting"]
                    /\ trace' = [trace EXCEPT ![r] = <<"Received">>]
            /\ tableName' = [tableName EXCEPT ![r] = parsed.tableName]
    /\ UNCHANGED <<client, acquired, released, submitted, result>>

\* call-tool, up to await pool.connect()
CallToolStart(r, requests) ==
    /\ NextToArrive(r)
    /\ \E q \in requests : req' = [req EXCEPT ![r] = q]
    /\ pc' = [pc EXCEPT ![r] = "connecting"]
    /\ trace' = [trace EXCEPT ![r] = <<"Received">>]
    /\ UNCHANGED <<tableName, client, acquired, released, submitted, resp, result>>

\* pool.connect() resolves with an idle client
PoolConnect(r) ==
    /\ pc[r] = "connecting"
    /\ \E h \in idleClients : client' = [client EXCEPT ![r] = h]
    /\ acquired' = [acquired EXCEPT ![r] = @ + 1]
    /\ pc' = [pc EXCEPT ![r] = "acquired"]
    /\ trace' = [trace EXCEPT ![r] = Append(@, "ConnectionAcquired")]
    /\ UNCHANGED <<tableName, req, released, submitted, resp, result>>

\* pool.connect() rejects (the database cannot be reached): the await is
\* outside every try block, so the handler's promise rejects.  The pool has
\* no connection timeout: a connect that waits for a client to be released
\* does not reject, only one for which the pool opens a connection can.
ConnectRejected(r) ==
    /\ pc[r] = "connecting"
    /\ idleClients # {}
    /\ \E e \in ProviderErrors : resp' = [resp EXCEPT ![r] = Failure(e)]
    /\ pc' = [pc EXCEPT ![r] = "done"]
    /\ trace' = [trace EXCEPT ![r] = Append(@, "ResponseBuilt")]
    /\ UNCHANGED <<tableName, req, client, acquired, released, submitted, result>>

\* list-resources, from the client to await client.query(...)
ListResourcesRun(r) ==
    /\ pc[r] = "acquired" /\ req[r].kind = "listResources"
    /\ submitted' = [submitted EXCEPT ![r] = Append(@,
          Statement(Some("SELECT table_name FROM information_schema.tables WHERE table_schema = 'public'"),
                    <<>>))]
    /\ pc' = [pc EXCEPT ![r] = "executing"]
    /\ trace' = [trace EXCEPT ![r] = Append(@, "Routed")]
    /\ UNCHANGED <<tableName, req, client, acquired, released, resp, result>>

\* read-resource, from the client to await client.query(..., [tableName])
ReadResourceRun(r) ==
    /\ pc[r] = "acquired" /\ req[r].kind = "readResource"
    /\ submitted' = [submitted EXCEPT ![r] = Append(@,
          Statement(Some("SELECT column_name, data_type FROM information_schema.columns WHERE table_name = $1"),
                    <<TemplateStr(tableName[r])>>))]
    /\ pc' = [pc EXCEPT ![r] = "executing"]
    /\ trace' = [trace EXCEPT ![r] = Append(@, "Routed")]
    /\ UNCHANGED <<tableName, req, client, acquired, released, resp, result>>

\* call-tool, from the client to await client.query(...), or through catch
\* and finally when the switch throws
CallToolRun(r) ==
    /\ pc[r] = "acquired" /\ req[r].kind = "callTool"
    /\ LET o == callToolSwitch(req[r])
           f == Finally(r, TRUE)
       IN IF o.threw
          THEN /\ resp' = [resp EXCEPT ![r] = ErrorResponse(o.message)]
               /\ client' = f.client
               /\ released' = f.released
               /\ pc' = [pc EXCEPT ![r] = "done"]
               /\ submitted' = submitted
               /\ trace' = [trace EXCEPT ![r] = Append(@, "Routed") \o LeavePhases(r, f)]
          ELSE /\ submitted' = [submitted EXCEPT ![r] = Append(@, o.statement)]
               /\ pc' = [pc EXCEPT ![r] = "executing"]
               /\ trace' = [trace EXCEPT ![r] = Append(@, "Routed")]
               /\ UNCHANGED <<client, released, resp>>
    /\ UNCHANGED <<tableName, req, acquired, result>>

\* what a handler returns when its query resolved with rows
handlerReturn(params, rows) ==
    CASE params.kind = "listResources" ->
           ListResponse([i \in 1..Len(rows) |-> resourceUri(rows[i])])
      [] params.kind = "readResource" -> ContentsResponse(StringifyRows(rows))
      [] params.kind = "callTool" /\ params.name = "insert" ->
           ToolResponse(StringifyFirstRow(rows))
      [] OTHER -> ToolResponse(Some(StringifyRows(rows)))

\* a slip: the resource handlers given the catch of the call-tool handler
handlerCatchEverywhere(params, message) == ErrorResponse(message)

\* what becomes of a handler whose query rejected: call-tool catches the
\* error and returns it; the resource handlers have no catch
handlerCatch(params, message) ==
    IF params.kind = "callTool" THEN ErrorResponse(message) ELSE Failure(message)

\* client.query resolves: the handler returns, through finally.  The
\* provider never resolves a query whose text is undefined.
QueryResolved(r) ==
    /\ pc[r] = "executing"
    /\ submitted[r][Len(submitted[r])].text.def
    /\ \E rows \in RowsFor(req[r].kind) :
         /\ result' = [result EXCEPT ![r] = RowsResult(rows)]
         /\ resp' = [resp EXCEPT ![r] = handlerReturn(req[r], rows)]
    /\ LET f == Finally(r, FALSE)
       IN /\ client' = f.client /\ released' = f.released
          /\ trace' = [trace EXCEPT ![r] = @ \o LeavePhases(r, f)]
    /\ pc' = [pc EXCEPT ![r] = "done"]
    /\ UNCHANGED <<tableName, req, acquired, submitted>>

\* a slip: a rejected statement is submitted once more before giving up
QueryRejectedRetries(r) ==
    /\ pc[r] = "executing"
    /\ Len(submitted[r]) = 1
    /\ \E e \in ProviderErrors : result' = [result EXCEPT ![r] = ErrorResult(e)]
    /\ submitted' = [submitted EXCEPT ![r] = Append(@, @[Len(@)])]
    /\ UNCHANGED <<tableName, pc, req, client, acquired, released, resp, trace>>

\* client.query rejects: the handler catches or propagates, through finally
QueryRejected(r) ==
    /\ pc[r] = "executing"
    /\ \E e \in ProviderErrors :
         /\ result' = [result EXCEPT ![r] = ErrorResult(e)]
         /\ resp' = [resp EXCEPT ![r] = handlerCatch(req[r], e)]
    /\ LET f == Finally(r, TRUE)
       IN /\ client' = f.client /\ released' = f.released
          /\ trace' = [trace EXCEPT ![r] = @ \o LeavePhases(r, f)]
    /\ pc' = [pc EXCEPT ![r] = "done"]
    /\ UNCHANGED <<tableName, req, acquired, submitted>>

(***************************************************************************)
(* Spec: MaxReq requests of any kind, interleaved at their awaits.         *)
(***************************************************************************)
Next ==
    \E r \in Reqs :
        \/ ListTools(r)
        \/ ListResourcesStart(r)
        \/ ReadResourceStart(r)
        \/ CallToolStart(r, FewCallToolRequests)
        \/ PoolConnect(r)
        \/ ConnectRejected(r)
        \/ ListResourcesRun(r)
        \/ ReadResourceRun(r)
        \/ CallToolRun(r)
        \/ QueryResolved(r)
        \/ QueryRejected(r)

Spec == Init /\ [][Next]_vars

(***************************************************************************)
(* SpecBuild: one call-tool request, over every arguments object of at     *)
(* most MaxKeys entries per map.                                           *)
(***************************************************************************)
NextBuild ==
    \/ CallToolStart(1, CallToolRequests(MaxKeys))
    \/ PoolConnect(1)
    \/ ConnectRejected(1)
    \/ CallToolRun(1)
    \/ QueryResolved(1)
    \/ QueryRejected(1)

SpecBuild == Init /\ [][NextBuild]_vars

(***************************************************************************)
(* SpecPool: MaxReq requests of the four kinds share the pool, and what    *)
(* is awaited is answered: the pool hands an idle client to a pending      *)
(* connect, the event loop resumes a handler whose await has settled, and  *)
(* the provider completes or fails every statement submitted to it.        *)
(***************************************************************************)
\* call-tool requests of each way through the handler: one that submits a
\* statement, one whose argument handling throws, one with an unknown tool
PoolCallToolRequests ==
    {Request("callTool", "query",
             Arguments(UndefStr, UndefObj, UndefObj, Some("SELECT 1")), ""),
     Request("callTool", "insert", NoArguments, ""),
     Request("callTool", "truncate", NoArguments, "")}

NextPool ==
    \E r \in Reqs :
        \/ ListTools(r)
        \/ ListResourcesStart(r)
        \/ ReadResourceStart(r)
        \/ CallToolStart(r, PoolCallToolRequests)
        \/ PoolConnect(r)
        \/ ConnectRejected(r)
        \/ ListResourcesRun(r)
        \/ ReadResourceRun(r)
        \/ CallToolRun(r)
        \/ QueryResolved(r)
        \/ QueryRejected(r)

\* pool.connect() settles when a client is idle; the continuation of a
\* settled await runs; client.query() settles
Fairness ==
    \A r \in Reqs :
        /\ WF_vars(PoolConnect(r) \/ ConnectRejected(r))
        /\ WF_vars(ListResourcesRun(r) \/ ReadResourceRun(r) \/ CallToolRun(r))
        /\ WF_vars(QueryResolved(r) \/ QueryRejected(r))

SpecPool == Init /\ [][NextPool]_vars /\ Fairness

(***************************************************************************)
(* Vocabulary of the properties.                                           *)
(***************************************************************************)
\* f[1] + ... + f[n]
RECURSIVE SumTo(_, _)
SumTo(f, n) == IF n = 0 THEN 0 ELSE f[n] + SumTo(f, n - 1)

\* every request that arrived has finished
Quiescent == \A r \in Reqs : pc[r] \in {"idle", "done"}

IsCall(r, names) == req[r].kind = "callTool" /\ req[r].name \in names

\* the handler's promise was fulfilled with an error-flagged response
ErrorFlagged(r) ==
    resp[r].status = "returned" /\ resp[r].isError /\ resp[r].text.def

\* the arguments object is there and its map `field` is there with n entries
HasMap(r, field, n) ==
    /\ req[r].arguments.def
    /\ req[r].arguments[field].def
    /\ Len(req[r].arguments[field].v) = n

HasNonEmptyMap(r, field) ==
    /\ req[r].arguments.def
    /\ req[r].arguments[field].def
    /\ Len(req[r].arguments[field].v) > 0

\* "c1" = $first <sep> "c2" = $(first+1) <sep> ... over the entries of a map
RECURSIVE Assignments(_, _, _)
Assignments(entries, first, sep) ==
    IF entries = <<>> THEN ""
    ELSE "\"" \o Head(entries).k \o "\" = $" \o ToString(first)
           \o (IF Len(entries) = 1 THEN ""
               ELSE sep \o Assignments(Tail(entries), first + 1, sep))

\* $first, $(first+1), ..., $last
RECURSIVE PlaceholderList(_, _)
PlaceholderList(first, last) ==
    IF first > last THEN ""
    ELSE "$" \o ToString(first)
           \o (IF first = last THEN "" ELSE ", " \o PlaceholderList(first + 1, last))

\* "c1", "c2", ... over the entries of a map
RECURSIVE QuotedKeys(_)
QuotedKeys(entries) ==
    IF entries = <<>> THEN ""
    ELSE "\"" \o Head(entries).k \o "\""
           \o (IF Len(entries) = 1 THEN "" ELSE ", " \o QuotedKeys(Tail(entries)))

\* sub occurs in s exactly once; where it does
OccursOnce(s, sub) == Cardinality(Occurrences(s, sub)) = 1
PositionOf(s, sub) == Min(Occurrences(s, sub))

(***************************************************************************)
(* C1.  Once every request has finished, the number of releases equals the *)
(* number of successful acquisitions (in total and for each request, with  *)
(* no client left held), and at no time has a request released more often  *)
(* than once or more often than it acquired.                               *)
(***************************************************************************)
C1_ReleasesMatchAcquisitions ==
    /\ \A r \in Reqs : released[r] <= 1 /\ released[r] <= acquired[r]
    /\ Quiescent =>
         /\ SumTo(released, MaxReq) = SumTo(acquired, MaxReq)
         /\ \A r \in Reqs : released[r] = acquired[r] /\ client[r] = 0

\* all requests finished: one threw or was rejected after acquiring, one
\* returned normally after acquiring
C1_Witness ==
    /\ \A r \in Reqs : pc[r] = "done"
    /\ \E a, b \in Reqs :
         /\ acquired[a] = 1 /\ (resp[a].isError \/ resp[a].status = "failed")
         /\ acquired[b] = 1 /\ resp[b].status = "returned" /\ ~resp[b].isError

(***************************************************************************)
(* C2.  Every call-tool request ends in a returned response, never in a    *)
(* propagated failure.                                                     *)
(***************************************************************************)
C2_CallToolNeverPropagates ==
    \A r \in Reqs :
        req[r].kind = "callTool" /\ pc[r] = "done" => resp[r].status = "returned"

(***************************************************************************)
(* The required arguments of each tool (inputSchema.required).             *)
(***************************************************************************)
RequiredArguments(name) ==
    CASE name = "insert" -> {"table", "data"}
      [] name = "update" -> {"table", "data", "where"}
      [] name = "delete" -> {"table", "where"}
      [] OTHER -> {}

\* the argument `field` is given, and not empty when it is a map
GivenNonEmpty(r, field) ==
    /\ req[r].arguments.def
    /\ req[r].arguments[field].def
    /\ field \in {"data", "where"} => Len(req[r].arguments[field].v) > 0

\* every required argument other than `field` is given and not empty
OthersGiven(r, field) ==
    \A f \in RequiredArguments(req[r].name) \ {field} : GivenNonEmpty(r, f)

\* the request omits a required argument (or the whole arguments object)
OmitsRequired(r) ==
    \/ ~req[r].arguments.def
    \/ \E field \in RequiredArguments(req[r].name) : ~req[r].arguments[field].def

\* no map that is given is empty
NoEmptyMap(r) ==
    \A f \in {"data", "where"} :
        req[r].arguments.def /\ req[r].arguments[f].def =>
            Len(req[r].arguments[f].v) > 0

\* no statement was submitted for r, and r, if it got its connection and has
\* finished, was answered with an error-flagged response
RejectedBeforeSubmission(r) ==
    /\ submitted[r] = <<>>
    /\ (pc[r] = "done" /\ acquired[r] = 1 => ErrorFlagged(r))

(***************************************************************************)
(* C3.  An update or delete whose where map is empty (its other arguments  *)
(* being in order) submits no statement and ends in an error-flagged       *)
(* response.                                                               *)
(***************************************************************************)
C3_EmptyWhereNeverSubmitted ==
    \A r \in Reqs :
        /\ IsCall(r, {"update", "delete"})
        /\ HasMap(r, "where", 0)
        /\ OthersGiven(r, "where")
        => RejectedBeforeSubmission(r)

(***************************************************************************)
(* C4.  An insert or update whose data map is empty (its other arguments   *)
(* being in order) submits no statement and ends in an error-flagged       *)
(* response.                                                               *)
(***************************************************************************)
C4_EmptyDataNeverSubmitted ==
    \A r \in Reqs :
        /\ IsCall(r, {"insert", "update"})
        /\ HasMap(r, "data", 0)
        /\ OthersGiven(r, "data")
        => RejectedBeforeSubmission(r)

(***************************************************************************)
(* C5.  An insert, update or delete that omits a required argument of its  *)
(* tool (the maps it does give being non-empty) submits no statement and   *)
(* ends in an error-flagged response, whichever argument is missing.       *)
(***************************************************************************)
C5_MissingArgumentNeverSubmitted ==
    \A r \in Reqs :
        /\ IsCall(r, {"insert", "update", "delete"})
        /\ OmitsRequired(r)
        /\ NoEmptyMap(r)
        => RejectedBeforeSubmission(r)

(***************************************************************************)
(* The statement a call-tool request submitted (its first and only one).   *)
(* Submitted(r) holds while the statement is with the provider: no step    *)
(* changes submitted[r] after that, so what holds of the statement then    *)
(* holds of it for good.                                                   *)
(***************************************************************************)
Submitted(r) == pc[r] = "executing" /\ submitted[r] # <<>>
StatementOf(r) == submitted[r][1]
TableGiven(r) == req[r].arguments.def /\ req[r].arguments.table.def

(***************************************************************************)
(* C6.  For every update with non-empty data (k entries) and non-empty     *)
(* where (m entries), the submitted text is                                *)
(*   UPDATE "<table>" SET "d1" = $1, ... WHERE "w1" = $(k+1) AND ...       *)
(*   RETURNING *                                                           *)
(* in the key order of data and of where, the bound values are the values  *)
(* of data followed by the values of where, and for every index i the text *)
(* pairs $i, once, with the column whose value is bound at position i.     *)
(***************************************************************************)
C6_UpdatePlaceholdersTrackValues ==
    \A r \in Reqs :
        /\ IsCall(r, {"update"}) /\ TableGiven(r)
        /\ HasNonEmptyMap(r, "data") /\ HasNonEmptyMap(r, "where")
        /\ Submitted(r)
        => LET data == req[r].arguments.data.v
               where == req[r].arguments.where.v
               k == Len(data)
               m == Len(where)
               all == data \o where
               st == StatementOf(r)
           IN /\ st.text.def
              /\ st.text.v = "UPDATE \"" \o req[r].arguments.table.v \o "\" SET "
                               \o Assignments(data, 1, ", ")
                               \o " WHERE " \o Assignments(where, k + 1, " AND ")
                               \o " RETURNING *"
              /\ Len(st.values) = k + m
              /\ \A i \in 1..(k + m) :
                   /\ st.values[i] = all[i].v
                   /\ OccursOnce(st.text.v, "$" \o ToString(i))
                   /\ OccursOnce(st.text.v,
                                 "\"" \o all[i].k \o "\" = $" \o ToString(i))
              /\ PositionOf(st.text.v, " SET ") < PositionOf(st.text.v, "$1")
              /\ PositionOf(st.text.v, "$" \o ToString(k))
                   < PositionOf(st.text.v, " WHERE ")
              /\ PositionOf(st.text.v, " WHERE ")
                   < PositionOf(st.text.v, "$" \o ToString(k + 1))

\* an update of MaxKeys columns under a predicate of MaxKeys columns was submitted
C6_Witness ==
    \E r \in Reqs :
        /\ IsCall(r, {"update"}) /\ TableGiven(r)
        /\ HasMap(r, "data", MaxKeys) /\ HasMap(r, "where", MaxKeys)
        /\ Submitted(r)
        /\ Len(StatementOf(r).values) = 2 * MaxKeys

(***************************************************************************)
(* C7.  For every insert with non-empty data (n entries), the submitted    *)
(* text is INSERT INTO "<table>" ("c1", ...) VALUES ($1, ..., $n)          *)
(* RETURNING * with the columns in data's key order, it holds exactly the  *)
(* placeholders $1..$n, once each and in increasing order, and the n bound *)
(* values are the values of the listed columns, position by position.      *)
(***************************************************************************)
C7_InsertPlaceholdersMatchValues ==
    \A r \in Reqs :
        /\ IsCall(r, {"insert"}) /\ TableGiven(r)
        /\ HasNonEmptyMap(r, "data")
        /\ Submitted(r)
        => LET data == req[r].arguments.data.v
               n == Len(data)
               st == StatementOf(r)
           IN /\ st.text.def
              /\ st.text.v = "INSERT INTO \"" \o req[r].arguments.table.v \o "\" ("
                               \o QuotedKeys(data) \o ") VALUES ("
                               \o PlaceholderList(1, n) \o ") RETURNING *"
              /\ Len(st.values) = n
              /\ Cardinality(Occurrences(st.text.v, "$")) = n
              /\ \A i \in 1..n :
                   /\ st.values[i] = data[i].v
                   /\ OccursOnce(st.text.v, "$" \o ToString(i))
                   /\ OccursOnce(st.text.v, "\"" \o data[i].k \o "\"")
              /\ \A i \in 1..(n - 1) :
                   /\ PositionOf(st.text.v, "$" \o ToString(i))
                        < PositionOf(st.text.v, "$" \o ToString(i + 1))
                   /\ PositionOf(st.text.v, "\"" \o data[i].k \o "\"")
                        < PositionOf(st.text.v, "\"" \o data[i + 1].k \o "\"")

\* an insert of MaxKeys columns was submitted
C7_Witness ==
    \E r \in Reqs :
        /\ IsCall(r, {"insert"}) /\ TableGiven(r)
        /\ HasMap(r, "data", MaxKeys)
        /\ Submitted(r)
        /\ Len(StatementOf(r).values) = MaxKeys

(***************************************************************************)
(* C8.  For every delete with non-empty where (m entries), the submitted   *)
(* text is DELETE FROM "<table>" WHERE "c1" = $1 AND ... AND "cm" = $m     *)
(* RETURNING * with the columns in where's key order, and the bound values *)
(* are the values of where in that order.                                  *)
(***************************************************************************)
C8_DeleteStatementShape ==
    \A r \in Reqs :
        /\ IsCall(r, {"delete"}) /\ TableGiven(r)
        /\ HasNonEmptyMap(r, "where")
        /\ Submitted(r)
        => LET where == req[r].arguments.where.v
               m == Len(where)
               st == StatementOf(r)
           IN /\ st.text.def
              /\ st.text.v = "DELETE FROM \"" \o req[r].arguments.table.v
                               \o "\" WHERE " \o Assignments(where, 1, " AND ")
                               \o " RETURNING *"
              /\ Cardinality(Occurrences(st.text.v, " AND ")) = m - 1
              /\ st.values = [i \in 1..m |-> where[i].v]

\* a delete under a predicate of MaxKeys columns was submitted
C8_Witness ==
    \E r \in Reqs :
        /\ IsCall(r, {"delete"}) /\ TableGiven(r)
        /\ HasMap(r, "where", MaxKeys)
        /\ Submitted(r)
        /\ Len(StatementOf(r).values) = MaxKeys

(***************************************************************************)
(* C9.  Every statement that insert, update or delete submits has a text   *)
(* made only of fixed keywords, quoted table/column identifiers and        *)
(* placeholders; no bound value occurs in the text; each placeholder $1 .. *)
(* $N occurs exactly once and there is no other placeholder, N being the   *)
(* number of bound values.                                                 *)
(***************************************************************************)
Keywords ==
    {"INSERT INTO ", " (", ", ", ") VALUES (", ") RETURNING *", "UPDATE ",
     " SET ", " = ", " WHERE ", " AND ", " RETURNING *", "DELETE FROM "}

\* the identifiers of the requests: the columns and the table, or what a
\* missing table renders as
QuotedIdentifiers == {"\"" \o id \o "\"" : id \in Columns \cup {"users", "undefined"}}

PlaceholdersTo(n) == {"$" \o ToString(i) : i \in 1..n}

\* text is a concatenation of elements of tokens
RECURSIVE MadeOf(_, _)
MadeOf(text, tokens) ==
    \/ Len(text) = 0
    \/ \E t \in tokens :
         /\ StartsWith(text, t)
         /\ MadeOf(SubSeq(text, Len(t) + 1, Len(text)), tokens)

C9_ValuesNeverInText ==
    \A r \in Reqs :
        IsCall(r, {"insert", "update", "delete"}) /\ Submitted(r) =>
            LET st == StatementOf(r)
                n == Len(st.values)
            IN /\ st.text.def
               /\ MadeOf(st.text.v,
                         Keywords \cup QuotedIdentifiers \cup PlaceholdersTo(n))
               /\ \A i \in 1..n :
                    /\ OccursOnce(st.text.v, "$" \o ToString(i))
                    /\ Occurrences(st.text.v, st.values[i]) = {}
               /\ Cardinality(Occurrences(st.text.v, "$")) = n

\* an insert, an update or a delete with bound values was submitted
C9_Witness ==
    \E r \in Reqs :
        /\ IsCall(r, {"update"})
        /\ Submitted(r)
        /\ Len(StatementOf(r).values) = 2 * MaxKeys
        /\ \E i, j \in 1..(2 * MaxKeys) :
             StatementOf(r).values[i] # StatementOf(r).values[j]

(***************************************************************************)
(* C10.  A call-tool request whose name is none of query, insert, update,  *)
(* delete ends in an error-flagged response, never in a propagated         *)
(* failure; it submits no statement and leaves no client held.             *)
(***************************************************************************)
UnknownTool(r) ==
    req[r].kind = "callTool"
    /\ req[r].name \notin {toolNames[i] : i \in 1..Len(toolNames)}

C10_UnknownToolErrorFlagged ==
    \A r \in Reqs :
        UnknownTool(r) =>
            /\ submitted[r] = <<>>
            /\ (pc[r] = "done" => ErrorFlagged(r) /\ client[r] = 0)

(***************************************************************************)
(* C11.  A read-resource request whose uri is absolute and whose trailing  *)
(* path segment is not "schema" ends, in the step that receives it, in a   *)
(* propagated failure "Invalid resource URI": it returns no content, asks  *)
(* for no connection and submits no catalog query.                         *)
(***************************************************************************)
Max(S) == CHOOSE x \in S : \A y \in S : x >= y

\* what follows the last "/" of the uri
AfterLastSlash(uri) ==
    LET at == Occurrences(uri, "/")
    IN IF at = {} THEN uri ELSE SubSeq(uri, Max(at) + 1, Len(uri))

WrongTrailingSegment(r) ==
    /\ req[r].kind = "readResource"
    /\ StartsWith(req[r].uri, "postgres://")
    /\ AfterLastSlash(req[r].uri) # "schema"

C11_WrongSegmentIsInvalidResource ==
    \A r \in Reqs :
        WrongTrailingSegment(r) =>
            /\ pc[r] = "done"
            /\ resp[r].status = "failed"
            /\ resp[r].text = Some("Invalid resource URI")
            /\ resp[r].list = <<>>
            /\ submitted[r] = <<>>
            /\ acquired[r] = 0 /\ client[r] = 0
            /\ result[r].status = "none"

\* a uri ending in /rows and a uri ending in / were both refused
C11_Witness ==
    \E a, b \in Reqs :
        /\ WrongTrailingSegment(a) /\ AfterLastSlash(req[a].uri) = "rows"
        /\ WrongTrailingSegment(b) /\ AfterLastSlash(req[b].uri) = ""
        /\ pc[a] = "done" /\ pc[b] = "done"

(***************************************************************************)
(* C12.  When the catalog query of a list-resources or read-resource       *)
(* request is rejected, the handler's promise is rejected with that error  *)
(* (no response body is made of it), and the client the request acquired   *)
(* has been released, once, by then.                                       *)
(***************************************************************************)
CatalogQueryFailed(r) ==
    /\ req[r].kind \in {"listResources", "readResource"}
    /\ result[r].status = "error"

C12_CatalogFailurePropagatesAndReleases ==
    \A r \in Reqs :
        CatalogQueryFailed(r) =>
            /\ pc[r] = "done"
            /\ resp[r].status = "failed"
            /\ resp[r].text = Some(result[r].error)
            /\ resp[r].list = <<>>
            /\ acquired[r] = 1 /\ released[r] = 1 /\ client[r] = 0
            /\ trace[r][Len(trace[r])] = "ConnectionReleased"

\* the catalog query of a list-resources and of a read-resource request failed
C12_Witness ==
    \E a, b \in Reqs :
        /\ CatalogQueryFailed(a) /\ req[a].kind = "listResources"
        /\ CatalogQueryFailed(b) /\ req[b].kind = "readResource"
        /\ Len(submitted[a]) = 1 /\ Len(submitted[b]) = 1

(***************************************************************************)
(* C13.  For every successful call-tool request: the content of insert is  *)
(* the first of the returned rows and holds no other row (with no row      *)
(* returned there is no first element, and the text is undefined); the     *)
(* content of query, update and delete holds every returned row, once, in  *)
(* the order the provider returned them, and nothing else.                 *)
(***************************************************************************)
SucceededCall(r) ==
    /\ req[r].kind = "callTool"
    /\ pc[r] = "done"
    /\ resp[r].status = "returned" /\ ~resp[r].isError
    /\ result[r].status = "rows"

C13_InsertFirstRowOthersAllRows ==
    \A r \in Reqs :
        SucceededCall(r) =>
            LET rows == result[r].rows
                text == resp[r].text
            IN IF req[r].name = "insert"
               THEN /\ rows # <<>> => text = Some(rows[1])
                    /\ rows = <<>> => ~text.def
                    /\ \A i \in 2..Len(rows) :
                         rows[i] # rows[1] => Occurrences(text.v, rows[i]) = {}
               ELSE /\ text.def
                    /\ \A i \in 1..Len(rows) : OccursOnce(text.v, rows[i])
                    /\ \A i \in 1..(Len(rows) - 1) :
                         PositionOf(text.v, rows[i]) < PositionOf(text.v, rows[i + 1])
                    /\ Cardinality(Occurrences(text.v, "{")) = Len(rows)
                    /\ SubSeq(text.v, 1, 1) = "[" /\ SubSeq(text.v, Len(text.v), Len(text.v)) = "]"

\* an insert for which the provider returned two rows has answered
C13_Witness ==
    \E r \in Reqs :
        /\ SucceededCall(r) /\ req[r].name = "insert"
        /\ Len(result[r].rows) = 2
        /\ resp[r].text = Some(result[r].rows[1])

\* an update for which the provider returned two rows has answered
C13_WitnessAllRows ==
    \E r \in Reqs :
        /\ SucceededCall(r) /\ req[r].name = "update"
        /\ Len(result[r].rows) = 2

(***************************************************************************)
(* C14.  Every list-resources, read-resource and call-tool request goes    *)
(* through Received, ConnectionAcquired, Routed, ResponseBuilt,            *)
(* ConnectionReleased in that order: it acquires exactly one client before *)
(* routing, has statements with the provider only while it holds that      *)
(* client, and has released it by the time it settles.                     *)
(***************************************************************************)
UsesPool(r) == req[r].kind \in {"listResources", "readResource", "callTool"}

PhasesTo(n) == SubSeq(PhasesInOrder, 1, n)

\* trace[r] is an initial part of the five phases, as far as pc[r] says
OnTheWay(r) ==
    CASE pc[r] = "connecting" -> trace[r] = PhasesTo(1)
      [] pc[r] = "acquired" -> trace[r] = PhasesTo(2)
      [] pc[r] = "executing" -> trace[r] = PhasesTo(3)
      [] OTHER -> FALSE

\* a client is held from ConnectionAcquired to ConnectionReleased, by one
\* request at a time, and a statement is with the provider only meanwhile
HoldsWhileExecuting(r) ==
    /\ acquired[r] <= 1
    /\ client[r] # 0 <=> pc[r] \in {"acquired", "executing"}
    /\ \A o \in Reqs \ {r} : client[r] # 0 => client[o] # client[r]
    /\ submitted[r] # <<>> => acquired[r] = 1
    /\ pc[r] = "executing" => client[r] # 0 /\ submitted[r] # <<>>

\* the claim as stated: every settled request went through all five phases
C14_AllFivePhases ==
    \A r \in Reqs :
        UsesPool(r) =>
            /\ HoldsWhileExecuting(r)
            /\ IF pc[r] = "done"
               THEN trace[r] = PhasesInOrder /\ acquired[r] = 1 /\ released[r] = 1
               ELSE OnTheWay(r)

\* settled without ever asking the pool successfully: the uri was refused
\* before pool.connect(), or pool.connect() rejected
SettledWithoutClient(r) ==
    /\ trace[r] = <<"Received", "ResponseBuilt">>
    /\ acquired[r] = 0 /\ released[r] = 0
    /\ submitted[r] = <<>>
    /\ resp[r].status = "failed"
    /\ \/ req[r].kind = "readResource" /\ resp[r].text.v \in {"Invalid URL", "Invalid resource URI"}
       \/ resp[r].text.v \in ProviderErrors

\* C14, amended: a request that acquires a client goes through the five
\* phases in order, holding exactly one client from ConnectionAcquired to
\* ConnectionReleased and submitting statements only meanwhile; a
\* read-resource request whose uri is refused, and a request whose
\* pool.connect() rejects, settle from Received without any client; in both
\* cases a settled request holds no client.
C14_PhasesWhenAcquired ==
    \A r \in Reqs :
        UsesPool(r) =>
            /\ HoldsWhileExecuting(r)
            /\ IF pc[r] = "done"
               THEN \/ trace[r] = PhasesInOrder /\ acquired[r] = 1 /\ released[r] = 1
                    \/ SettledWithoutClient(r)
               ELSE OnTheWay(r)

\* one request settled through the five phases with a response; a
\* read-resource request settled without a client
C14_Witness ==
    \E a, b \in Reqs :
        /\ pc[a] = "done" /\ trace[a] = PhasesInOrder /\ resp[a].status = "returned"
        /\ pc[b] = "done" /\ req[b].kind = "readResource" /\ SettledWithoutClient(b)

(***************************************************************************)
(* C15.  A call-tool request submits at most one statement: once its       *)
(* statement has failed the request has finished with that one statement,  *)
(* and no request ever has a second statement.                             *)
(***************************************************************************)
C15_AtMostOneStatement ==
    \A r \in Reqs :
        req[r].kind = "callTool" =>
            /\ Len(submitted[r]) <= 1
            /\ result[r].status # "none" => pc[r] = "done" /\ Len(submitted[r]) = 1
            /\ pc[r] = "done" /\ resp[r].status = "returned" /\ ~resp[r].isError
                 => Len(submitted[r]) = 1

\* a call-tool request whose statement failed has finished
C15_Witness ==
    \E r \in Reqs :
        /\ req[r].kind = "callTool" /\ pc[r] = "done"
        /\ result[r].status = "error"
        /\ Len(submitted[r]) = 1
        /\ resp[r].isError

(***************************************************************************)
(* C16.  A list-tools request, whatever the requests before it did and     *)
(* whatever the pool is doing, is answered in the step it arrives in with  *)
(* exactly the descriptors query, insert, update and delete; it never has  *)
(* a client, never submits a statement, and its step leaves the clients    *)
(* of the pool and every request's statements as they were.                *)
(***************************************************************************)
AnsweredWithFourTools(r) ==
    /\ pc'[r] = "done"
    /\ resp'[r].status = "returned" /\ ~resp'[r].isError
    /\ resp'[r].list = <<"query", "insert", "update", "delete">>
    /\ client'[r] = 0 /\ acquired'[r] = 0 /\ released'[r] = 0
    /\ submitted'[r] = <<>> /\ result'[r] = NoResult

C16_ListToolsFourDescriptorsNoIO ==
    [][\A r \in Reqs :
         req'[r].kind = "listTools" =>
             /\ AnsweredWithFourTools(r)
             /\ req[r].kind # "listTools" =>
                  UNCHANGED <<client, acquired, released, submitted, result>>]_vars

\* a list-tools request answered while another request holds the client of
\* the pool, its statement in flight
C16_Witness ==
    \E r, p \in Reqs :
        /\ req[r].kind = "listTools" /\ pc[r] = "done"
        /\ resp[r].list = <<"query", "insert", "update", "delete">>
        /\ p < r /\ pc[p] = "executing" /\ client[p] # 0

(***************************************************************************)
(* C17.  Requests interleaved at their awaits over a pool of PoolSize      *)
(* clients never deadlock: the clients held are never more than PoolSize   *)
(* nor more than the requests in flight, a request in flight always has a  *)
(* step some request can take, and, what is awaited being answered, every  *)
(* request that arrived is answered and every client handed out comes      *)
(* back to the pool.                                                       *)
(***************************************************************************)
InFlight == {r \in Reqs : pc[r] \in {"connecting", "acquired", "executing"}}
Held == {h \in Handles : \E r \in Reqs : client[r] = h}

HeldWithinBounds ==
    /\ Cardinality(Held) <= PoolSize
    /\ Cardinality(Held) <= Cardinality(InFlight)
    /\ \A r \in Reqs : client[r] # 0 => r \in InFlight
    /\ \A r, p \in Reqs : client[r] # 0 /\ client[r] = client[p] => r = p

SomeRequestCanStep ==
    InFlight # {} =>
        ENABLED (\E r \in Reqs :
                   \/ PoolConnect(r) \/ ConnectRejected(r)
                   \/ ListResourcesRun(r) \/ ReadResourceRun(r) \/ CallToolRun(r)
                   \/ QueryResolved(r) \/ QueryRejected(r))

\* every request that has arrived is answered and no client is held
AllRespondedAllBack ==
    /\ \A r \in Reqs : pc[r] # "idle" => pc[r] = "done" /\ resp[r].status # "none"
    /\ Held = {}

\* the requests being MaxReq in all, each that arrives is answered and each
\* client comes back exactly if from some point on AllRespondedAllBack holds
C17_NoDeadlockAllRespond ==
    /\ [](HeldWithinBounds /\ SomeRequestCanStep)
    /\ <>[]AllRespondedAllBack

\* every client of the pool is held, and a request waits for one
C17_Witness ==
    /\ Held = Handles
    /\ \E r \in Reqs : pc[r] = "connecting"
    /\ \E p \in Reqs : pc[p] = "executing"

(***************************************************************************)
(* C18.  In every response of a call-tool request, isError is false        *)
(* exactly if one statement was submitted for the request and the          *)
(* provider resolved it, and true exactly if the tool name is unknown,     *)
(* or reading the arguments threw, or the submitted statement was          *)
(* rejected.                                                               *)
(***************************************************************************)
\* destructuring undefined arguments, or Object.keys of a map that is not
\* there, throws before any statement is built
ArgumentHandlingThrows(r) ==
    /\ IsCall(r, {"insert", "update", "delete"})
    /\ \/ ~req[r].arguments.def
       \/ IsCall(r, {"insert", "update"}) /\ ~req[r].arguments.data.def
       \/ IsCall(r, {"update", "delete"}) /\ ~req[r].arguments.where.def

CallToolResponded(r) ==
    req[r].kind = "callTool" /\ pc[r] = "done" /\ resp[r].status = "returned"

C18_IsErrorIffNotOneSuccess ==
    \A r \in Reqs :
        CallToolResponded(r) =>
            /\ ~resp[r].isError <=>
                  Len(submitted[r]) = 1 /\ result[r].status = "rows"
            /\ resp[r].isError <=>
                  \/ UnknownTool(r)
                  \/ ArgumentHandlingThrows(r)
                  \/ Len(submitted[r]) = 1 /\ result[r].status = "error"
            /\ UnknownTool(r) \/ ArgumentHandlingThrows(r) => submitted[r] = <<>>

\* a response without the flag, to a request whose one statement resolved
C18_Witness ==
    \E r \in Reqs :
        /\ CallToolResponded(r)
        /\ ~resp[r].isError
        /\ Len(submitted[r]) = 1 /\ result[r].status = "rows"
        /\ ~UnknownTool(r) /\ ~ArgumentHandlingThrows(r)

\* a response with the flag, to a request reading whose arguments threw
C18_WitnessThrew ==
    \E r \in Reqs :
        CallToolResponded(r) /\ resp[r].isError /\ ArgumentHandlingThrows(r)

(***************************************************************************)
(* C19.  For every table name without a path separator that a              *)
(* list-resources request was answered with, a read-resource request for   *)
(* the uri listed for that table is not refused, parses the uri back to    *)
(* that table name, and binds that table name as the one parameter of its  *)
(* catalog query.                                                          *)
(***************************************************************************)
\* the read-resource request was refused before any connection was asked for
RefusedUri(r) ==
    pc[r] = "done" /\ acquired[r] = 0
    /\ resp[r].text \in {Some("Invalid resource URI"), Some("Invalid URL")}

\* the request l listed table_name at position i of its response
ListedAt(l, i) ==
    /\ req[l].kind = "listResources"
    /\ result[l].status = "rows"
    /\ resp[l].status = "returned"
    /\ i \in 1..Len(result[l].rows)
    /\ Occurrences(result[l].rows[i], "/") = {}

C19_ListedUriReadsBackTable ==
    \A l, r \in Reqs :
        \A i \in 1..Len(result[l].rows) :
            ListedAt(l, i) /\ req[r].kind = "readResource"
              /\ req[r].uri = resp[l].list[i] =>
                /\ ~RefusedUri(r)
                /\ tableName[r] = Some(result[l].rows[i])
                /\ submitted[r] # <<>> =>
                     submitted[r][1].values = <<result[l].rows[i]>>

=============================================================================
